---------------------------- MODULE Spec2Model ----------------------------
(***************************************************************************)
(* A model of the vault tools of hrootzel/Password-Manager:                *)
(*   scripts/vault_crypto.py       the VLT2 envelope and AES-GCM calls     *)
(*   scripts/vault_tui_textual.py  VaultStore and the Textual front end    *)
(*   scripts/vault_tui.py          the curses editor                       *)
(*   scripts/encrypt_vault.py      the command line encryptor              *)
(*   scripts/decrypt_vault.py      the command line decryptor              *)
(*                                                                         *)
(* Bytes are the integers 0..255 and a byte string is a sequence of them.  *)
(* A Python str is the sequence of its code points.                        *)
(***************************************************************************)
EXTENDS Integers, Sequences, FiniteSets, Bags, TLC

(***************************************************************************)
(* Bounds of the model.                                                    *)
(***************************************************************************)
\* secrets.token_bytes has this many outcomes per call of encrypt_vault
NumDraws == 2
\* secrets.token_bytes has this many outcomes per save of a VaultStore
NumSaveDraws == 1
\* ids handed to the store API, and the largest id an add may assign
MaxId == 2
\* order values handed to the store API, and the cap on an assigned order
MaxOrder == 2
\* plaintexts given to encrypt_vault as raw text have at most this many characters
MaxPlainLen == 1
\* a write interrupted by a crash or an I/O error leaves at most this many bytes
MaxCut == 1
\* at most this many bytes of a vault file are changed behind the tools' back
MaxTamper == 1
\* the curses editor's list is not grown beyond this many entries
MaxEntries == 3
\* a document whose loading is examined has at most this many records
MaxRecords == 2

(***************************************************************************)
(* vault_crypto.py: constants                                              *)
(***************************************************************************)
MAGIC == <<86, 76, 84, 50>>
SALT_SIZE == 16
NONCE_SIZE == 12
TAG_SIZE == 16
KEY_SIZE == 32
PBKDF2_ITERATIONS == 10000
\* the block size of SHA-256, to which HMAC brings its key (RFC 2104)
HMAC_BLOCK == 64

(***************************************************************************)
(* Library primitives.  SHA-256, PBKDF2-HMAC and AES-GCM are modelled by   *)
(* arithmetic stand-ins that keep their structure: a digest is a sum of    *)
(* the bytes weighted by position, the cipher adds a key stream byte by    *)
(* byte (XOR is modelled by addition modulo 256), and the tag is made of   *)
(* sums over the ciphertext and of values derived from key and nonce.      *)
(***************************************************************************)
\* the sum of the values of f, a function whose values are positive integers
Sum(f) == BagCardinality(f)

\* a number determined by byte string s; changing one byte changes it
Digest(s) == Sum([i \in 1..Len(s) |-> (s[i] + 1) * i])

\* n bytes determined by (and, for n >= 4, determining) the number g
Expand(g, n) ==
    [j \in 1..n |-> IF j = 1 THEN g % 256
                    ELSE IF j = 2 THEN (g \div 256) % 256
                    ELSE IF j = 3 THEN (g \div 65536) % 256
                    ELSE IF j = 4 THEN g \div 16777216
                    ELSE (g * j + j) % 256]

Zeros(n) == [j \in 1..n |-> 0]

\* hashlib.sha256(s).digest()
sha256(s) == Expand(Digest(s), 32)

\* HMAC's key preparation: a key longer than the block is hashed, and the
\* result is padded with zero bytes to the block size.
HmacKey(k) ==
    LET k0 == IF Len(k) > HMAC_BLOCK THEN sha256(k) ELSE k
    IN  k0 \o Zeros(HMAC_BLOCK - Len(k0))

\* hashlib.pbkdf2_hmac("sha256", password, salt, iterations, dklen)
pbkdf2_hmac(pw, salt, iterations, dklen) ==
    Expand(Digest(HmacKey(pw) \o salt) + iterations, dklen)

\* derive_key, given passphrase.encode("utf-8")
derive_key(passphrase_bytes, salt) ==
    pbkdf2_hmac(passphrase_bytes, salt, PBKDF2_ITERATIONS, KEY_SIZE)

\* the GHASH subkey of a key
HashSubkey(key) == Digest(key)

\* the value AES yields for the counter block built from key and nonce
CounterBase(key, nonce) == Digest(key \o nonce)

KeyStream(base, i) == ((base + i) * 167 + 13) % 256

\* the tag of ciphertext ct: the counter value, two sums over the
\* ciphertext and the subkey, a quarter of the tag each
GcmTag(key, base, ct) ==
    LET q == TAG_SIZE \div 4
    IN  Expand(base, q)
        \o Expand(Sum([i \in 1..Len(ct) |-> ct[i] + 1]), q)
        \o Expand(Digest(ct), q)
        \o Expand(HashSubkey(key), q)

\* AES.new(key, MODE_GCM, nonce, mac_len).encrypt_and_digest(pt)
encrypt_and_digest(key, nonce, pt) ==
    LET base == CounterBase(key, nonce)
        ct == [i \in 1..Len(pt) |-> (pt[i] + KeyStream(base, i)) % 256]
    IN  [ciphertext |-> ct,
         tag |-> GcmTag(key, base, ct)]

\* AES.new(key, MODE_GCM, nonce, mac_len).decrypt_and_verify(ct, tag);
\* ok = FALSE stands for the ValueError of a failed tag check.
decrypt_and_verify(key, nonce, ct, tag) ==
    LET base == CounterBase(key, nonce)
    IN  IF GcmTag(key, base, ct) = tag
        THEN [ok |-> TRUE,
              plaintext |-> [i \in 1..Len(ct) |->
                               (ct[i] + 256 - KeyStream(base, i)) % 256]]
        ELSE [ok |-> FALSE, plaintext |-> <<>>]

(***************************************************************************)
(* vault_crypto.py: VaultPayload, encrypt_vault, decrypt_vault             *)
(***************************************************************************)
\* to_bytes with tag and nonce in each other's place
to_bytes_tag_first(p) == MAGIC \o p.salt \o p.tag \o p.nonce \o p.ciphertext

to_bytes(p) == MAGIC \o p.salt \o p.nonce \o p.tag \o p.ciphertext

header_len == Len(MAGIC) + SALT_SIZE + NONCE_SIZE + TAG_SIZE

\* err = "" when a payload was read, else the ValueError's message
from_bytes(blob) ==
    IF Len(blob) < header_len
    THEN [err |-> "Vault file too small"]
    ELSE IF SubSeq(blob, 1, Len(MAGIC)) # MAGIC
    THEN [err |-> "Invalid vault header"]
    ELSE LET salt_offset == Len(MAGIC)
             nonce_offset == salt_offset + SALT_SIZE
             tag_offset == nonce_offset + NONCE_SIZE
         IN  [err |-> "",
              salt |-> SubSeq(blob, salt_offset + 1, nonce_offset),
              nonce |-> SubSeq(blob, nonce_offset + 1, tag_offset),
              tag |-> SubSeq(blob, tag_offset + 1, tag_offset + TAG_SIZE),
              ciphertext |-> SubSeq(blob, tag_offset + TAG_SIZE + 1, Len(blob))]

\* secrets.token_bytes(n): outcome number r
token_bytes(n, r) == [j \in 1..n |-> (r * 37 + j * 11) % 256]

Draws == 1..NumDraws
SaveDraws == 1..NumSaveDraws

(***************************************************************************)
(* str.encode("utf-8") and bytes.decode("utf-8") for code points below     *)
(* 2048: one byte below 128, else a lead byte and a continuation byte.     *)
(***************************************************************************)
EncodeChar(c) ==
    IF c < 128 THEN <<c>> ELSE <<192 + (c \div 64), 128 + (c % 64)>>

RECURSIVE EncodeRange(_, _, _)
EncodeRange(s, lo, hi) ==
    IF lo > hi THEN <<>>
    ELSE IF lo = hi THEN EncodeChar(s[lo])
    ELSE LET mid == (lo + hi) \div 2
         IN  EncodeRange(s, lo, mid) \o EncodeRange(s, mid + 1, hi)

utf8_encode(s) ==
    IF \A i \in 1..Len(s) : s[i] < 128 THEN s ELSE EncodeRange(s, 1, Len(s))

IsLead(b) == b >= 194 /\ b <= 223
IsCont(b) == b >= 128 /\ b <= 191

\* ok = FALSE stands for the UnicodeDecodeError
utf8_decode(b) ==
    LET n == Len(b)
        good == \A i \in 1..n :
                  /\ b[i] < 128 \/ IsLead(b[i]) \/ IsCont(b[i])
                  /\ IsLead(b[i]) => (i < n /\ IsCont(b[i + 1]))
                  /\ IsCont(b[i]) => (i > 1 /\ IsLead(b[i - 1]))
        starts == SelectSeq([i \in 1..n |-> i], LAMBDA i : ~IsCont(b[i]))
    IN  IF ~good THEN [ok |-> FALSE, str |-> <<>>]
        ELSE [ok |-> TRUE,
              str |-> [k \in 1..Len(starts) |->
                         LET i == starts[k]
                         IN  IF b[i] < 128 THEN b[i]
                             ELSE (b[i] - 192) * 64 + (b[i + 1] - 128)]]

\* encrypt_vault with the outcomes rs, rn of its two token_bytes calls
encrypt_vault(plaintext_json, passphrase, rs, rn) ==
    LET salt == token_bytes(SALT_SIZE, rs)
        nonce == token_bytes(NONCE_SIZE, rn)
        key == derive_key(utf8_encode(passphrase), salt)
        c == encrypt_and_digest(key, nonce, utf8_encode(plaintext_json))
    IN  to_bytes([salt |-> salt, nonce |-> nonce, tag |-> c.tag,
                  ciphertext |-> c.ciphertext])

\* decrypt_vault without the try/except around decrypt_and_verify: the
\* bytes are decoded whatever the tag check said
decrypt_vault_unverified(blob, passphrase) ==
    LET payload == from_bytes(blob)
    IN  IF payload.err # ""
        THEN [err |-> payload.err, plaintext |-> <<>>, verified |-> FALSE]
        ELSE LET key == derive_key(utf8_encode(passphrase), payload.salt)
                 base == CounterBase(key, payload.nonce)
                 pt == [i \in 1..Len(payload.ciphertext) |->
                          (payload.ciphertext[i] + 256 - KeyStream(base, i)) % 256]
                 u == utf8_decode(pt)
             IN  IF ~u.ok
                 THEN [err |-> "UnicodeDecodeError", plaintext |-> <<>>,
                       verified |-> FALSE]
                 ELSE [err |-> "", plaintext |-> u.str, verified |-> TRUE]

\* decrypt_vault: err # "" is the exception that leaves it (the ValueError
\* of from_bytes, or a UnicodeDecodeError); otherwise the returned pair
\* (plaintext, verified).
decrypt_vault(blob, passphrase) ==
    LET payload == from_bytes(blob)
    IN  IF payload.err # ""
        THEN [err |-> payload.err, plaintext |-> <<>>, verified |-> FALSE]
        ELSE LET key == derive_key(utf8_encode(passphrase), payload.salt)
                 d == decrypt_and_verify(key, payload.nonce,
                                         payload.ciphertext, payload.tag)
                 u == utf8_decode(d.plaintext)
             IN  IF ~d.ok
                 THEN [err |-> "", plaintext |-> <<>>, verified |-> FALSE]
                 ELSE IF ~u.ok
                 THEN [err |-> "UnicodeDecodeError", plaintext |-> <<>>,
                       verified |-> FALSE]
                 ELSE [err |-> "", plaintext |-> u.str, verified |-> TRUE]

(***************************************************************************)
(* JSON.  A JSON value is a record with one field naming its type:         *)
(*   [null |-> TRUE]   [int |-> n]   [str |-> s]   [list |-> <<v, ...>>]   *)
(*   [dict |-> f], f a function from key names to values.                  *)
(* A str is the sequence of its character codes.  The text json.dumps      *)
(* writes is modelled by a tagged byte encoding that json.loads parses     *)
(* back; object keys are written as their index in KeySeq.                 *)
(***************************************************************************)
JNull == [null |-> TRUE]
JInt(n) == [int |-> n]
JStr(s) == [str |-> s]
JList(xs) == [list |-> xs]
JDict(f) == [dict |-> f]

IsNull(v) == "null" \in DOMAIN v
IsInt(v) == "int" \in DOMAIN v
IsStr(v) == "str" \in DOMAIN v
IsList(v) == "list" \in DOMAIN v
IsDict(v) == "dict" \in DOMAIN v

\* the object keys of the modelled documents
KeySeq == <<"entries", "Entries", "id", "order", "serviceName", "title",
            "username", "password", "notes", "url", "customKey">>

TAG_NULL == 110
TAG_INT == 105
TAG_STR == 115
TAG_LIST == 91
TAG_DICT == 123

RECURSIVE dumps(_), DumpItems(_, _), DumpPairs(_, _)
dumps(v) ==
    IF IsNull(v) THEN <<TAG_NULL>>
    ELSE IF IsInt(v) THEN <<TAG_INT, v.int>>
    ELSE IF IsStr(v) THEN <<TAG_STR, Len(v.str)>> \o v.str
    ELSE IF IsList(v) THEN <<TAG_LIST, Len(v.list)>> \o DumpItems(v.list, 1)
    ELSE <<TAG_DICT, Cardinality(DOMAIN v.dict)>> \o DumpPairs(v.dict, 1)

DumpItems(xs, i) ==
    IF i > Len(xs) THEN <<>> ELSE dumps(xs[i]) \o DumpItems(xs, i + 1)

DumpPairs(d, i) ==
    IF i > Len(KeySeq) THEN <<>>
    ELSE (IF KeySeq[i] \in DOMAIN d THEN <<i>> \o dumps(d[KeySeq[i]]) ELSE <<>>)
         \o DumpPairs(d, i + 1)

\* the result of a failed parse (json.JSONDecodeError)
ParseFail == [ok |-> FALSE, val |-> JNull, next |-> 0]

RECURSIVE Parse(_, _), ParseItems(_, _, _, _), ParsePairs(_, _, _, _)
Parse(b, i) ==
    IF i > Len(b) THEN ParseFail
    ELSE IF b[i] = TAG_NULL THEN [ok |-> TRUE, val |-> JNull, next |-> i + 1]
    ELSE IF b[i] = TAG_INT THEN
        IF i + 1 > Len(b) THEN ParseFail
        ELSE [ok |-> TRUE, val |-> JInt(b[i + 1]), next |-> i + 2]
    ELSE IF b[i] = TAG_STR THEN
        IF i + 1 > Len(b) \/ i + 1 + b[i + 1] > Len(b) THEN ParseFail
        ELSE [ok |-> TRUE, val |-> JStr(SubSeq(b, i + 2, i + 1 + b[i + 1])),
              next |-> i + 2 + b[i + 1]]
    ELSE IF b[i] = TAG_LIST THEN
        IF i + 1 > Len(b) THEN ParseFail
        ELSE ParseItems(b, i + 2, b[i + 1], <<>>)
    ELSE IF b[i] = TAG_DICT THEN
        IF i + 1 > Len(b) THEN ParseFail
        ELSE ParsePairs(b, i + 2, b[i + 1], <<>>)
    ELSE ParseFail

ParseItems(b, i, n, acc) ==
    IF n = 0 THEN [ok |-> TRUE, val |-> JList(acc), next |-> i]
    ELSE LET r == Parse(b, i)
         IN  IF ~r.ok THEN ParseFail
             ELSE ParseItems(b, r.next, n - 1, Append(acc, r.val))

\* a key that occurs twice keeps its last value, as in json.loads
ParsePairs(b, i, n, acc) ==
    IF n = 0 THEN [ok |-> TRUE, val |-> JDict(acc), next |-> i]
    ELSE IF i > Len(b) \/ b[i] \notin 1..Len(KeySeq) THEN ParseFail
    ELSE LET r == Parse(b, i + 1)
         IN  IF ~r.ok THEN ParseFail
             ELSE ParsePairs(b, r.next, n - 1, (KeySeq[b[i]] :> r.val) @@ acc)

\* json.loads: ok = FALSE stands for the JSONDecodeError
loads(b) ==
    LET r == Parse(b, 1)
    IN  IF r.ok /\ r.next = Len(b) + 1 THEN [ok |-> TRUE, val |-> r.val]
        ELSE [ok |-> FALSE, val |-> JNull]

(***************************************************************************)
(* vault_tui_textual.py: VaultEntry and VaultStore                         *)
(***************************************************************************)
\* VaultEntry.id = None
NoId == -1

VaultEntry(id, serviceName, username, password, notes, order) ==
    [id |-> id, serviceName |-> serviceName, username |-> username,
     password |-> password, notes |-> notes, order |-> order]

\* the empty dict
EmptyDict == [k \in {} |-> 0]

Max(a, b) == IF a >= b THEN a ELSE b

\* item.get(k)
Get(item, k) == IF k \in DOMAIN item THEN item[k] ELSE JNull

\* Python truth of a JSON value, as used by `or`
Truthy(v) ==
    IF IsNull(v) THEN FALSE
    ELSE IF IsInt(v) THEN v.int # 0
    ELSE IF IsStr(v) THEN v.str # <<>>
    ELSE IF IsList(v) THEN v.list # <<>>
    ELSE DOMAIN v.dict # {}

IsDigit(c) == c >= 48 /\ c <= 57

RECURSIVE DigitsValue(_, _, _)
DigitsValue(s, i, acc) ==
    IF i > Len(s) THEN acc ELSE DigitsValue(s, i + 1, acc * 10 + (s[i] - 48))

\* int(raw) inside try/except (TypeError, ValueError): ok = FALSE when it raised
ParseInt(v) ==
    IF IsInt(v) THEN [ok |-> TRUE, n |-> v.int]
    ELSE IF IsStr(v) /\ v.str # <<>> /\ \A i \in 1..Len(v.str) : IsDigit(v.str[i])
    THEN [ok |-> TRUE, n |-> DigitsValue(v.str, 1, 0)]
    ELSE [ok |-> FALSE, n |-> 0]

\* the text of a str value (the modelled documents hold only str in text fields)
TextOf(v) == IF IsStr(v) THEN v.str ELSE <<>>

\* the body of the loop of VaultStore.load with the record's position taken
\* as counted from 1
LoadItem_counting_from_one(item, idx, nid) ==
    LET raw_id == Get(item, "id")
        parsed_id == IF ~IsNull(raw_id) /\ ParseInt(raw_id).ok
                     THEN ParseInt(raw_id).n ELSE NoId
        raw_order == Get(item, "order")
        parsed_order == IF ~IsNull(raw_order) /\ ParseInt(raw_order).ok
                        THEN ParseInt(raw_order).n ELSE idx + 1
        name == IF Truthy(Get(item, "serviceName")) THEN Get(item, "serviceName")
                ELSE IF Truthy(Get(item, "title")) THEN Get(item, "title")
                ELSE JStr(<<>>)
        eid == IF parsed_id = NoId THEN nid ELSE parsed_id
    IN  VaultEntry(eid, TextOf(name),
                   TextOf(Get(item, "username")),
                   TextOf(Get(item, "password")),
                   TextOf(Get(item, "notes")),
                   parsed_order)

\* the body of the loop of VaultStore.load: the entry made of the record
\* item at position idx (from 0) when the counter is nid
LoadItem(item, idx, nid) ==
    LET raw_id == Get(item, "id")
        parsed_id == IF ~IsNull(raw_id) /\ ParseInt(raw_id).ok
                     THEN ParseInt(raw_id).n ELSE NoId
        raw_order == Get(item, "order")
        parsed_order == IF ~IsNull(raw_order) /\ ParseInt(raw_order).ok
                        THEN ParseInt(raw_order).n ELSE idx
        name == IF Truthy(Get(item, "serviceName")) THEN Get(item, "serviceName")
                ELSE IF Truthy(Get(item, "title")) THEN Get(item, "title")
                ELSE JStr(<<>>)
        eid == IF parsed_id = NoId THEN nid ELSE parsed_id
    IN  VaultEntry(eid, TextOf(name),
                   TextOf(Get(item, "username")),
                   TextOf(Get(item, "password")),
                   TextOf(Get(item, "notes")),
                   parsed_order)

\* the loop of VaultStore.load over entries[i..]
RECURSIVE LoadItems(_, _, _, _)
LoadItems(items, i, ents, nid) ==
    IF i > Len(items) THEN [raised |-> "", entries |-> ents, next_id |-> nid]
    ELSE IF ~IsDict(items[i])
    THEN [raised |-> "AttributeError", entries |-> ents, next_id |-> nid]
    ELSE
      LET entry == LoadItem(items[i].dict, i - 1, nid)
      IN  LoadItems(items, i + 1, (entry.id :> entry) @@ ents,
                    Max(nid, entry.id + 1))

\* VaultStore.__init__ followed by load(): the store built from the vault
\* file (exists, data) with `password`; raised # "" is the exception that
\* ends the constructor.
load(exists, data, password) ==
    LET fresh == [raised |-> "", entries |-> EmptyDict, extras |-> EmptyDict,
                  next_id |-> 1]
        fail(msg) == [fresh EXCEPT !.raised = msg]
    IN
    IF ~exists THEN fresh
    ELSE
      LET d == decrypt_vault(data, password)
      IN  IF d.err # "" THEN fail(d.err)
          ELSE IF ~d.verified THEN fail("Wrong password or corrupted vault")
          ELSE
            LET j == loads(d.plaintext)
            IN  IF ~j.ok THEN fail("JSONDecodeError")
                ELSE
                  LET doc == j.val
                      ents == IF IsDict(doc) THEN Get(doc.dict, "entries") ELSE doc
                  IN  IF ~IsList(ents) THEN fail("Invalid vault format")
                      ELSE
                        LET extras == IF IsDict(doc)
                                      THEN [k \in DOMAIN doc.dict \ {"entries"} |-> doc.dict[k]]
                                      ELSE EmptyDict
                            r == LoadItems(ents.list, 1, EmptyDict, 1)
                        IN  [raised |-> r.raised, entries |-> r.entries,
                             extras |-> extras, next_id |-> r.next_id]

\* the sort key of VaultStore.all
AllKeyLE(a, b) == a.order < b.order \/ (a.order = b.order /\ a.id <= b.id)

RECURSIVE SortedFrom(_, _)
SortedFrom(ents, ks) ==
    IF ks = {} THEN <<>>
    ELSE LET m == CHOOSE k \in ks : \A o \in ks : AllKeyLE(ents[k], ents[o])
         IN  <<ents[m]>> \o SortedFrom(ents, ks \ {m})

\* VaultStore.all
all(ents) == SortedFrom(ents, DOMAIN ents)

\* dataclasses.asdict(e) with d["title"] = e.serviceName
EntryDict(e) ==
    JDict([id |-> JInt(e.id), serviceName |-> JStr(e.serviceName),
           username |-> JStr(e.username), password |-> JStr(e.password),
           notes |-> JStr(e.notes), order |-> JInt(e.order),
           title |-> JStr(e.serviceName)])

\* a payload that leaves out the last entry of all()
Payload_without_last(ents, extras) ==
    LET items == all(ents)
        data_entries == [i \in 1..(Len(items) - 1) |-> EntryDict(items[i])]
    IN  JDict(extras @@ ("entries" :> JList(data_entries)))

\* a payload of the entries alone
Payload_entries_only(ents, extras) ==
    LET items == all(ents)
        data_entries == [i \in 1..Len(items) |-> EntryDict(items[i])]
    IN  JDict("entries" :> JList(data_entries))

\* the payload VaultStore.save serialises
Payload(ents, extras) ==
    LET items == all(ents)
        data_entries == [i \in 1..Len(items) |-> EntryDict(items[i])]
    IN  JDict(extras @@ ("entries" :> JList(data_entries)))

\* the bytes VaultStore.save hands to save_file
SaveBlob(ents, extras, password, rs, rn) ==
    encrypt_vault(dumps(Payload(ents, extras)), password, rs, rn)

\* add that places the entry at order len(entries)
add_order_by_count(ents, nid, entry) ==
    LET eid == IF entry.id = NoId THEN nid ELSE entry.id
        e == [entry EXCEPT !.id = eid, !.order = Cardinality(DOMAIN ents)]
    IN  [entries |-> (eid :> e) @@ ents, next_id |-> Max(nid, eid + 1), entry |-> e]

\* the in-memory effect of VaultStore.add
add(ents, nid, entry) ==
    LET eid == IF entry.id = NoId THEN nid ELSE entry.id
        orders == {ents[k].order : k \in DOMAIN ents}
        max_order == IF orders = {} THEN -1
                     ELSE CHOOSE o \in orders : \A p \in orders : p <= o
        e == [entry EXCEPT !.id = eid, !.order = max_order + 1]
    IN  [entries |-> (eid :> e) @@ ents, next_id |-> Max(nid, eid + 1), entry |-> e]

\* the in-memory effect of VaultStore.update for an entry with an id
update(ents, entry) == (entry.id :> entry) @@ ents

\* delete that closes the gap in the order values of the entries left
delete_renumbering(ents, entry_id) ==
    LET left == [k \in DOMAIN ents \ {entry_id} |-> ents[k]]
    IN  [k \in DOMAIN left |->
           [left[k] EXCEPT !.order =
              Cardinality({o \in DOMAIN left :
                             \/ left[o].order < left[k].order
                             \/ left[o].order = left[k].order /\ o < k})]]

\* the in-memory effect of VaultStore.delete
delete(ents, entry_id) == [k \in DOMAIN ents \ {entry_id} |-> ents[k]]

\* reorder that exchanges the order values of the two entries and leaves
\* the others as they are
reorder_swap_orders(ents, entry_id, delta) ==
    LET items == all(ents)
        hit == {i \in 1..Len(items) : items[i].id = entry_id}
    IN  IF hit = {} THEN [moved |-> FALSE, entries |-> ents]
        ELSE
          LET idx == (CHOOSE i \in hit : \A o \in hit : o <= i) - 1
              new_idx == idx + delta
          IN  IF new_idx < 0 \/ new_idx >= Len(items)
              THEN [moved |-> FALSE, entries |-> ents]
              ELSE
                LET a == items[idx + 1]
                    b == items[new_idx + 1]
                IN  [moved |-> TRUE,
                     entries |-> [k \in DOMAIN ents |->
                                    IF k = a.id THEN [a EXCEPT !.order = b.order]
                                    ELSE IF k = b.id THEN [b EXCEPT !.order = a.order]
                                    ELSE ents[k]]]

\* reorder whose target index wraps around the ends of the list
reorder_wrapping(ents, entry_id, delta) ==
    LET items == all(ents)
        hit == {i \in 1..Len(items) : items[i].id = entry_id}
    IN  IF hit = {} THEN [moved |-> FALSE, entries |-> ents]
        ELSE
          LET idx == (CHOOSE i \in hit : \A o \in hit : o <= i) - 1
              new_idx == (idx + delta + Len(items)) % Len(items)
              swapped == [i \in 1..Len(items) |->
                            IF i = idx + 1 THEN items[new_idx + 1]
                            ELSE IF i = new_idx + 1 THEN items[idx + 1]
                            ELSE items[i]]
              placed == [i \in 1..Len(items) |->
                            [swapped[i] EXCEPT !.order = i - 1]]
          IN  [moved |-> TRUE,
               entries |-> [k \in {placed[i].id : i \in 1..Len(items)} |->
                              placed[CHOOSE i \in 1..Len(items) :
                                       placed[i].id = k]]]

\* reorder that takes the entry out and puts it in at the new index, the
\* entries between moving up by one
reorder_shifting(ents, entry_id, delta) ==
    LET items == all(ents)
        hit == {i \in 1..Len(items) : items[i].id = entry_id}
    IN  IF hit = {} THEN [moved |-> FALSE, entries |-> ents]
        ELSE
          LET idx == (CHOOSE i \in hit : \A o \in hit : o <= i) - 1
              new_idx == idx + delta
          IN  IF new_idx < 0 \/ new_idx >= Len(items)
              THEN [moved |-> FALSE, entries |-> ents]
              ELSE
                LET rest == SubSeq(items, 1, idx) \o SubSeq(items, idx + 2, Len(items))
                    shifted == SubSeq(rest, 1, new_idx) \o <<items[idx + 1]>>
                               \o SubSeq(rest, new_idx + 1, Len(rest))
                    placed == [i \in 1..Len(items) |->
                                  [shifted[i] EXCEPT !.order = i - 1]]
                IN  [moved |-> TRUE,
                     entries |-> [k \in {placed[i].id : i \in 1..Len(items)} |->
                                    placed[CHOOSE i \in 1..Len(items) :
                                             placed[i].id = k]]]

\* VaultStore.reorder: moved = FALSE on either early return
reorder(ents, entry_id, delta) ==
    LET items == all(ents)
        hit == {i \in 1..Len(items) : items[i].id = entry_id}
    IN  IF hit = {} THEN [moved |-> FALSE, entries |-> ents]
        ELSE
          LET idx == (CHOOSE i \in hit : \A o \in hit : o <= i) - 1
              new_idx == idx + delta
          IN  IF new_idx < 0 \/ new_idx >= Len(items)
              THEN [moved |-> FALSE, entries |-> ents]
              ELSE
                LET swapped == [i \in 1..Len(items) |->
                                  IF i = idx + 1 THEN items[new_idx + 1]
                                  ELSE IF i = new_idx + 1 THEN items[idx + 1]
                                  ELSE items[i]]
                    placed == [i \in 1..Len(items) |->
                                  [swapped[i] EXCEPT !.order = i - 1]]
                IN  [moved |-> TRUE,
                     entries |-> [k \in {placed[i].id : i \in 1..Len(items)} |->
                                    placed[CHOOSE i \in 1..Len(items) :
                                             placed[i].id = k]]]

\* str.lower()
lower(s) == [i \in 1..Len(s) |-> IF s[i] >= 65 /\ s[i] <= 90 THEN s[i] + 32 ELSE s[i]]

\* s < t for two str (by code point)
RECURSIVE StrLess(_, _, _)
StrLess(s, t, i) ==
    IF i > Len(t) THEN FALSE
    ELSE IF i > Len(s) THEN TRUE
    ELSE IF s[i] # t[i] THEN s[i] < t[i]
    ELSE StrLess(s, t, i + 1)

SortKey(e) == lower(e.serviceName)

\* sorted(items, key = SortKey, reverse = desc): a stable insertion sort
RECURSIVE SortedByName(_, _, _, _)
SortedByName(items, i, acc, desc) ==
    IF i > Len(items) THEN acc
    ELSE
      LET x == items[i]
          after == {j \in 1..Len(acc) :
                      IF desc THEN StrLess(SortKey(acc[j]), SortKey(x), 1)
                      ELSE StrLess(SortKey(x), SortKey(acc[j]), 1)}
          pos == IF after = {} THEN Len(acc) + 1
                 ELSE CHOOSE j \in after : \A o \in after : j <= o
      IN  SortedByName(items, i + 1,
                       SubSeq(acc, 1, pos - 1) \o <<x>> \o SubSeq(acc, pos, Len(acc)),
                       desc)

\* the loop of action_sort_entries with the names compared as they are
sort_entries_case_sensitive(ents, desc) ==
    LET items == all(ents)
        before(a, b) == IF desc THEN StrLess(b.serviceName, a.serviceName, 1)
                        ELSE StrLess(a.serviceName, b.serviceName, 1)
        rank(i) == Cardinality({j \in 1..Len(items) :
                                  \/ before(items[j], items[i])
                                  \/ /\ ~before(items[i], items[j])
                                     /\ j < i})
    IN  [k \in DOMAIN ents |->
           [ents[k] EXCEPT !.order =
              rank(CHOOSE i \in 1..Len(items) : items[i].id = k)]]

\* the entries after the loop of VaultListScreen.action_sort_entries
sort_entries(ents, desc) ==
    LET es == SortedByName(all(ents), 1, <<>>, desc)
        placed == [i \in 1..Len(es) |-> [es[i] EXCEPT !.order = i - 1]]
    IN  [k \in {placed[i].id : i \in 1..Len(es)} |->
           placed[CHOOSE i \in 1..Len(es) : placed[i].id = k]]

(***************************************************************************)
(* vault_tui.py: load_entries and serialize_entries of the curses editor   *)
(***************************************************************************)
\* a or b
Or(a, b) == IF Truthy(a) THEN a ELSE b

\* k.lower(), for the object keys of the modelled documents
LowerKey(k) == IF k = "Entries" THEN "entries" ELSE k

\* the dict appended to norm for the record e
NormEntry(e) ==
    LET title == Or(Get(e, "title"),
                    Or(Get(e, "Title"), Or(Get(e, "serviceName"), JStr(<<>>))))
    IN  [title |-> title,
         serviceName |-> Or(Get(e, "serviceName"), title),
         username |-> Or(Get(e, "username"), Or(Get(e, "Username"), JStr(<<>>))),
         password |-> Or(Get(e, "password"), Or(Get(e, "Password"), JStr(<<>>))),
         notes |-> Or(Get(e, "notes"), Or(Get(e, "Notes"), JStr(<<>>)))] @@ e

\* load_entries: raised # "" is the exception that leaves it
load_entries(blob, passphrase) ==
    LET fail(msg) == [raised |-> msg, entries |-> <<>>, extras |-> EmptyDict]
        d == decrypt_vault(blob, passphrase)
        j == loads(d.plaintext)
        data == j.val
        found == IF IsList(data) THEN data
                 ELSE Or(Get(data.dict, "entries"),
                         Or(Get(data.dict, "Entries"), JList(<<>>)))
        kept == IF IsList(data) THEN EmptyDict
                ELSE [k \in {k \in DOMAIN data.dict : LowerKey(k) # "entries"} |->
                        data.dict[k]]
    IN  IF d.err # "" THEN fail(d.err)
        ELSE IF ~d.verified THEN fail("Wrong password or corrupted vault")
        ELSE IF ~j.ok THEN fail("JSONDecodeError")
        ELSE IF ~IsList(data) /\ ~IsDict(data) THEN fail("Unsupported JSON structure")
        ELSE IF ~IsList(found) \/ \E i \in 1..Len(found.list) : ~IsDict(found.list[i])
        THEN fail("TypeError")
        ELSE [raised |-> "",
              entries |-> [i \in 1..Len(found.list) |-> NormEntry(found.list[i].dict)],
              extras |-> kept]

\* the dict appended to serialized for the entry e
SerializedEntry(e) ==
    [serviceName |-> IF "title" \in DOMAIN e THEN e["title"]
                     ELSE IF "serviceName" \in DOMAIN e THEN e["serviceName"]
                     ELSE JStr(<<>>),
     title |-> IF "title" \in DOMAIN e THEN e["title"] ELSE JStr(<<>>),
     username |-> IF "username" \in DOMAIN e THEN e["username"] ELSE JStr(<<>>),
     password |-> IF "password" \in DOMAIN e THEN e["password"] ELSE JStr(<<>>),
     notes |-> IF "notes" \in DOMAIN e THEN e["notes"] ELSE JStr(<<>>)] @@ e

\* serialize_entries: the text of the payload
serialize_entries(es, xs) ==
    dumps(JDict(xs @@ [entries |-> JList([i \in 1..Len(es) |->
                                           JDict(SerializedEntry(es[i]))])]))

(***************************************************************************)
(* vault_crypto.py: save_file, with the ways its write can end             *)
(***************************************************************************)
NoFile == [exists |-> FALSE, data |-> <<>>]

\* open(path, "wb") truncates the file and f.write(data) then fills it:
\* the file holds the first `written` bytes of data when the call ends.
save_file(data, written) == [exists |-> TRUE, data |-> SubSeq(data, 1, written)]

(***************************************************************************)
(* Inputs                                                                  *)
(***************************************************************************)
\* "pw", the passphrase of the vault's owner
UserPw == <<112, 119>>
\* "pw", "pw" followed by NUL, "x"
Passphrases == {UserPw, <<112, 119, 0>>, <<120>>}

\* the text fields typed into the editor or passed to the API:
\* ("a", "u", "p", "") and ("B", "", "q", "n")
Fields == {[serviceName |-> <<97>>, username |-> <<117>>, password |-> <<112>>,
            notes |-> <<>>],
           [serviceName |-> <<66>>, username |-> <<>>, password |-> <<113>>,
            notes |-> <<110>>]}

Ids == 1..MaxId
Orders == 0..MaxOrder
Deltas == {-1, 1, 2}

WithFields(id, f, order) ==
    VaultEntry(id, f.serviceName, f.username, f.password, f.notes, order)

\* {"entries": [{"id": 1, "order": 1, "serviceName": "a", "username": "u",
\*               "password": "p", "notes": ""},
\*              {"id": 2, "order": 1, "title": "B", "password": "q", "url": "w"}],
\*  "customKey": "v"}
DocWithExtras ==
    JDict([entries |-> JList(<<
              JDict([id |-> JInt(1), order |-> JInt(1), serviceName |-> JStr(<<97>>),
                     username |-> JStr(<<117>>), password |-> JStr(<<112>>),
                     notes |-> JStr(<<>>)]),
              JDict([id |-> JInt(2), order |-> JInt(1), title |-> JStr(<<66>>),
                     password |-> JStr(<<113>>), url |-> JStr(<<119>>)])>>),
           customKey |-> JStr(<<118>>)])

\* the documents an existing vault holds when the editor is first started
InitDocs == {DocWithExtras}

\* {"entries": [{"id": 3, "order": 0, "serviceName": "a", "password": "p"},
\*              {"id": 1, "order": 0, "serviceName": "B", "password": "q"},
\*              {"id": 2, "order": 4, "title": "A", "username": "u"}],
\*  "customKey": "v"}
DocOfThree ==
    JDict([entries |-> JList(<<
              JDict([id |-> JInt(3), order |-> JInt(0), serviceName |-> JStr(<<97>>),
                     password |-> JStr(<<112>>)]),
              JDict([id |-> JInt(1), order |-> JInt(0), serviceName |-> JStr(<<66>>),
                     password |-> JStr(<<113>>)]),
              JDict([id |-> JInt(2), order |-> JInt(4), title |-> JStr(<<65>>),
                     username |-> JStr(<<117>>)])>>),
           customKey |-> JStr(<<118>>)])

\* the "id" of a record of a loaded document: none, 1, 2, or the text "x"
RecordIds == {JNull, JInt(1), JInt(2), JStr(<<120>>)}
\* its "order": none, 2, the text "1", or the text "x"
RecordOrders == {JNull, JInt(2), JStr(<<49>>), JStr(<<120>>)}

\* the record at place i of a list, named by the letter of its place:
\* {"serviceName": "a", "id": ..., "order": ...}, a key being left out
\* where the choice is none
RecordAt(i, id, order) ==
    JDict([k \in {"serviceName"} \cup (IF IsNull(id) THEN {} ELSE {"id"})
                  \cup (IF IsNull(order) THEN {} ELSE {"order"}) |->
             IF k = "serviceName" THEN JStr(<<96 + i>>)
             ELSE IF k = "id" THEN id ELSE order])

\* the lists of n such records
RecordLists(n) ==
    {[i \in 1..n |-> RecordAt(i, c[i][1], c[i][2])] :
       c \in [1..n -> RecordIds \X RecordOrders]}

\* the documents {"entries": [...]} of at most MaxRecords records
LoadDocs ==
    {JDict([entries |-> JList(l)]) :
       l \in UNION {RecordLists(n) : n \in 0..MaxRecords}}

\* "a" and e-acute, the characters of the raw plaintexts
PlainChars == {97, 233}

RECURSIVE StringsUpTo(_)
StringsUpTo(n) ==
    IF n = 0 THEN {<<>>}
    ELSE LET shorter == StringsUpTo(n - 1)
         IN  shorter \cup {Append(s, c) : s \in shorter, c \in PlainChars}

\* the plaintext_json arguments of encrypt_vault
Plaintexts == StringsUpTo(MaxPlainLen) \cup {dumps(d) : d \in InitDocs}

\* a changed byte differs from the written one by one of these, modulo 256
TamperDeltas == {1, 255}

\* the bytes of a vault file written before the VLT2 layout: a salt of 16
\* bytes, the SHA-256 of the plaintext "a", and one cipher block of 16 bytes
OlderBlob == token_bytes(16, 1) \o sha256(<<97>>) \o token_bytes(16, 2)

(***************************************************************************)
(* State                                                                   *)
(***************************************************************************)
VARIABLES
    vault,      \* the vault file: [exists, data]
    phase,      \* "closed": no store object; "open": a VaultStore is loaded
    password,   \* VaultStore.password
    entries,    \* VaultStore._entries: id -> VaultEntry
    extras,     \* VaultStore._extras: key -> JSON value
    next_id,    \* VaultStore._next_id
    sort_desc,  \* VaultListScreen._sort_desc
    last,       \* the call that has just ended and how it ended
    deleted,    \* the ids deleted from the store since it was opened
    given,      \* what encrypt_vault was last called with, and what it returned
    tampered,   \* how many bytes of the file were changed since it was written
    out,        \* what decrypt_vault last returned, and for which passphrase
    editor      \* the run of vault_tui.py: main's and tui's local variables

vars == <<vault, phase, password, entries, extras, next_id, sort_desc, last,
          deleted, given, tampered, out, editor>>

store == <<password, entries, extras, next_id, sort_desc, deleted>>
crypto == <<given, tampered, out>>

\* a call: its operation, the id it named (and whether add drew it from the
\* counter), its delta, whether the store held that id when it was made, how
\* it ended, and for the opening of a store the passphrase it was given
Call(op, id, auto, delta, known, res) ==
    [op |-> op, id |-> id, auto |-> auto, delta |-> delta, known |-> known,
     res |-> res, by |-> <<>>]

NoCall == Call("none", 0, FALSE, 0, FALSE, "ok")
NoOut == [by |-> <<>>, err |-> "none", plaintext |-> <<>>, verified |-> FALSE]
NoGiven == [plaintext |-> <<>>, passphrase |-> <<>>, blob |-> <<>>]
\* vault_tui.py is not running
NoEditor == [running |-> FALSE, password |-> <<>>, entries |-> <<>>,
             extras |-> EmptyDict, idx |-> -1, modified |-> FALSE]

NoStore ==
    /\ password' = <<>>
    /\ entries' = EmptyDict
    /\ extras' = EmptyDict
    /\ next_id' = 1
    /\ sort_desc' = FALSE
    /\ deleted' = {}

\* no tool is running
Idle ==
    /\ phase = "closed"
    /\ password = <<>>
    /\ entries = EmptyDict
    /\ extras = EmptyDict
    /\ next_id = 1
    /\ sort_desc = FALSE
    /\ last = NoCall
    /\ deleted = {}
    /\ tampered = 0
    /\ out = NoOut
    /\ editor = NoEditor

\* the editor is started on no vault file or on one the owner encrypted
Init ==
    /\ \/ /\ vault = NoFile
          /\ given = NoGiven
       \/ \E d \in InitDocs :
            \E blob \in {encrypt_vault(dumps(d), UserPw, 1, 1)} :
              /\ vault = save_file(blob, Len(blob))
              /\ given = [plaintext |-> dumps(d), passphrase |-> UserPw,
                          blob |-> blob]
    /\ Idle

(***************************************************************************)
(* PasswordManagerApp: the store's lifetime                                *)
(***************************************************************************)
\* PasswordManagerApp.__init__: VaultStore(vault_path, p).  A new vault is
\* created under the owner's passphrase; an existing one is tried with any.
Open(p) ==
    /\ phase = "closed"
    /\ last = NoCall
    /\ vault.exists \/ p = UserPw
    /\ \E r \in {load(vault.exists, vault.data, p)} :
           IF r.raised = ""
           THEN /\ phase' = "open"
                /\ password' = p
                /\ entries' = r.entries
                /\ extras' = r.extras
                /\ next_id' = r.next_id
                /\ last' = [Call("open", 0, FALSE, 0, FALSE, "ok") EXCEPT !.by = p]
                /\ UNCHANGED <<sort_desc, deleted>>
           ELSE /\ last' = [Call("open", 0, FALSE, 0, FALSE, "raised") EXCEPT !.by = p]
                /\ UNCHANGED <<phase, store>>
    /\ out' = NoOut
    /\ UNCHANGED <<vault, given, tampered, editor>>

\* the app exits and the process ends
Close ==
    /\ phase = "open"
    /\ last = NoCall
    /\ phase' = "closed"
    /\ NoStore
    /\ last' = Call("close", 0, FALSE, 0, FALSE, "ok")
    /\ UNCHANGED <<vault, crypto, editor>>

\* VaultListScreen.refresh_list: the call has returned, the list view is
\* rebuilt from store.all() and the front end waits for the next key.
refresh_list ==
    /\ last # NoCall
    /\ last' = NoCall
    /\ UNCHANGED <<vault, phase, store, crypto, editor>>

(***************************************************************************)
(* VaultStore.save, as the last statement of a mutating call: the call     *)
(* leaves the store as (ents, nid, desc, del) and then saves.  Either      *)
(* save_file completes, or the process dies after writing `cut` bytes.     *)
(***************************************************************************)
Save(ents, nid, desc, del, call) ==
    \E r \in SaveDraws :
      \E blob \in {SaveBlob(ents, extras, password, r, r)} :
          \/ /\ vault' = save_file(blob, Len(blob))
             /\ entries' = ents
             /\ next_id' = nid
             /\ sort_desc' = desc
             /\ deleted' = del
             /\ last' = [call EXCEPT !.res = "ok"]
             /\ UNCHANGED <<phase, password, extras, crypto, editor>>
          \/ \E cut \in 0..MaxCut :
               /\ cut < Len(blob)
               /\ vault' = save_file(blob, cut)
               /\ phase' = "closed"
               /\ NoStore
               /\ last' = [call EXCEPT !.res = "crashed"]
               /\ UNCHANGED <<crypto, editor>>

\* a call that returns or raises without touching the store or the file
Untouched(call) ==
    /\ last' = call
    /\ UNCHANGED <<vault, phase, store, crypto, editor>>

(***************************************************************************)
(* VaultStore's API                                                        *)
(***************************************************************************)
\* store.add(VaultEntry(id, f..., order)); id = NoId for an entry without id
Add(id, f) ==
    /\ phase = "open"
    /\ last = NoCall
    /\ \E a \in {add(entries, next_id, WithFields(id, f, 0))} :
           /\ a.entry.id <= MaxId
           /\ a.entry.order <= MaxOrder
           /\ Save(a.entries, a.next_id, sort_desc, deleted,
                   Call("add", a.entry.id, id = NoId, 0, a.entry.id \in DOMAIN entries, "ok"))

\* store.update(VaultEntry(id, f..., order))
Update(id, f, order) ==
    /\ phase = "open"
    /\ last = NoCall
    /\ IF id = NoId
       THEN Untouched(Call("update", id, FALSE, 0, FALSE, "raised"))
       ELSE Save(update(entries, WithFields(id, f, order)), next_id, sort_desc,
                 deleted, Call("update", id, FALSE, 0, id \in DOMAIN entries, "ok"))

\* store.delete(id)
Delete(id) ==
    /\ phase = "open"
    /\ last = NoCall
    /\ IF id \in DOMAIN entries
       THEN Save(delete(entries, id), next_id, sort_desc, deleted \cup {id},
                 Call("delete", id, FALSE, 0, TRUE, "ok"))
       ELSE Untouched(Call("delete", id, FALSE, 0, FALSE, "noop"))

\* store.reorder(id, delta)
Reorder(id, delta) ==
    /\ phase = "open"
    /\ last = NoCall
    /\ \E r \in {reorder(entries, id, delta)} :
         LET call == Call("reorder", id, FALSE, delta, id \in DOMAIN entries, "noop")
         IN  IF r.moved
           THEN Save(r.entries, next_id, sort_desc, deleted, call)
           ELSE Untouched(call)

(***************************************************************************)
(* VaultListScreen: the actions of the Textual front end                   *)
(***************************************************************************)
\* key s: action_sort_entries
SortEntries ==
    /\ phase = "open"
    /\ last = NoCall
    /\ LET desc == ~sort_desc
       IN  Save(sort_entries(entries, desc), next_id, desc, deleted,
                Call("sort", 0, FALSE, 0, FALSE, "ok"))

\* _collect_entry that does not read the notes input
collect_entry_old_notes(entry, f) ==
    VaultEntry(entry.id, f.serviceName, f.username, f.password, entry.notes,
               entry.order)

\* EditEntryScreen._collect_entry, the inputs holding the fields f
collect_entry(entry, f) ==
    VaultEntry(entry.id, f.serviceName, f.username, f.password, f.notes,
               entry.order)

\* key e on the highlighted entry id: the editor opens on store.get(id);
\* Save dismisses it with _collect_entry() holding the fields f, and the
\* callback of _open_editor calls store.update.
EditEntry(id, f) ==
    /\ phase = "open"
    /\ last = NoCall
    /\ id \in DOMAIN entries
    /\ LET entry == entries[id]
           collected == collect_entry(entry, f)
           result == [collected EXCEPT !.order = entry.order]
       IN  Save(update(entries, result), next_id, sort_desc, deleted,
                Call("edit", id, FALSE, 0, TRUE, "ok"))

\* Escape or Cancel in the editor: dismiss(None)
CancelEdit(id) ==
    /\ phase = "open"
    /\ last = NoCall
    /\ id \in DOMAIN entries
    /\ Untouched(Call("cancel", id, FALSE, 0, TRUE, "noop"))

Next ==
    \/ \E p \in Passphrases : Open(p)
    \/ Close
    \/ refresh_list
    \/ \E id \in Ids \cup {NoId}, f \in Fields : Add(id, f)
    \/ \E id \in Ids \cup {NoId}, f \in Fields, o \in Orders : Update(id, f, o)
    \/ \E id \in Ids : Delete(id)
    \/ \E id \in Ids, delta \in Deltas : Reorder(id, delta)
    \/ SortEntries
    \/ \E id \in Ids, f \in Fields : EditEntry(id, f)
    \/ \E id \in Ids : CancelEdit(id)

Spec == Init /\ [][Next]_vars

(***************************************************************************)
(* The command line tools on one vault file                                *)
(***************************************************************************)
\* a caller of vault_crypto, once: encrypt_vault(d, p) with the token_bytes
\* outcomes rs, rn, then save_file(path, blob), as encrypt_vault.py does for
\* a plaintext that json.loads accepts
Encrypt(d, p, rs, rn) ==
    /\ phase = "closed"
    /\ last = NoCall
    /\ given = NoGiven
    /\ \E blob \in {encrypt_vault(d, p, rs, rn)} :
           /\ vault' = save_file(blob, Len(blob))
           /\ given' = [plaintext |-> d, passphrase |-> p, blob |-> blob]
    /\ tampered' = 0
    /\ out' = NoOut
    /\ UNCHANGED <<phase, store, last, editor>>

\* byte i of the vault file is changed by delta
Tamper(i, delta) ==
    /\ phase = "closed"
    /\ last = NoCall
    /\ vault.exists
    /\ tampered < MaxTamper
    /\ i \in 1..Len(vault.data)
    /\ vault' = [vault EXCEPT !.data[i] = (@ + delta) % 256]
    /\ tampered' = tampered + 1
    /\ out' = NoOut
    /\ UNCHANGED <<phase, store, last, given, editor>>

\* decrypt_vault.py: decrypt_vault(load_file(input), p)
Decrypt(p) ==
    /\ phase = "closed"
    /\ last = NoCall
    /\ vault.exists
    /\ \E d \in {decrypt_vault(vault.data, p)} :
           out' = [by |-> p, err |-> d.err, plaintext |-> d.plaintext,
                   verified |-> d.verified]
    /\ UNCHANGED <<vault, phase, store, last, given, tampered, editor>>

\* decrypt_vault.py, main: how the run ends when decrypt_vault ended as o.
\* The except clause takes any ValueError, of which UnicodeDecodeError is
\* one; the JSONDecodeError of json.loads is raised outside the try.
ExitMessage(o) ==
    IF o.err # "" THEN "Invalid vault format"
    ELSE IF ~o.verified THEN "Authentication failed"
    ELSE IF ~loads(o.plaintext).ok THEN "JSONDecodeError"
    ELSE "printed"

\* decrypt_vault.py is given a new path, or a vault file of the older layout
InitVault ==
    /\ vault \in {NoFile, save_file(OlderBlob, Len(OlderBlob))}
    /\ given = NoGiven
    /\ Idle

NextVault ==
    \/ \E d \in Plaintexts, p \in Passphrases, rs \in Draws, rn \in Draws :
         Encrypt(d, p, rs, rn)
    \/ \E i \in 1..Len(vault.data), delta \in TamperDeltas : Tamper(i, delta)
    \/ \E p \in Passphrases : Decrypt(p)
    \/ \E p \in Passphrases : Open(p)
    \/ Close
    \/ refresh_list

SpecVault == InitVault /\ [][NextVault]_vars

(***************************************************************************)
(* The list screen of the Textual front end on a vault of three entries    *)
(***************************************************************************)
\* the ids of the items the list view can highlight
ListIds == 1..(MaxId + 1)

InitList ==
    /\ \E blob \in {encrypt_vault(dumps(DocOfThree), UserPw, 1, 1)} :
         /\ vault = save_file(blob, Len(blob))
         /\ given = [plaintext |-> dumps(DocOfThree), passphrase |-> UserPw,
                     blob |-> blob]
    /\ Idle

NextList ==
    \/ \E p \in Passphrases : Open(p)
    \/ Close
    \/ refresh_list
    \/ \E id \in ListIds : Delete(id)
    \/ \E id \in ListIds, delta \in Deltas : Reorder(id, delta)
    \/ SortEntries
    \/ \E id \in ListIds : CancelEdit(id)

SpecList == InitList /\ [][NextList]_vars

(***************************************************************************)
(* The front end is started on a vault that holds any document of LoadDocs *)
(***************************************************************************)
InitLoad ==
    /\ \E d \in LoadDocs :
         \E blob \in {encrypt_vault(dumps(d), UserPw, 1, 1)} :
           /\ vault = save_file(blob, Len(blob))
           /\ given = [plaintext |-> dumps(d), passphrase |-> UserPw,
                       blob |-> blob]
    /\ Idle

NextLoad ==
    \/ \E p \in Passphrases : Open(p)
    \/ Close
    \/ refresh_list

SpecLoad == InitLoad /\ [][NextLoad]_vars

(***************************************************************************)
(* vault_tui.py: one run of the curses editor on the vault file            *)
(***************************************************************************)
\* what the user types into the detail view: for some of its fields
\* (serviceName, username, password, notes) a new text, which prompt_line
\* strips and takes only when it is not empty: nothing, "z" as name, "n" as
\* notes
Typings == {EmptyDict, [serviceName |-> <<122>>], [notes |-> <<110>>]}

\* edit_entry_fields(entry) for a user who sets the fields of `typed` and
\* leaves with q (del = FALSE) or with d and y (del = TRUE): the returned
\* (edited, changed, deleted)
edit_entry_fields(entry, typed, del) ==
    LET news == {k \in DOMAIN typed :
                   JStr(typed[k]) # (IF k \in DOMAIN entry THEN entry[k]
                                     ELSE JStr(<<>>))}
        mirrored == IF "serviceName" \in news
                    THEN "title" :> JStr(typed["serviceName"])
                    ELSE EmptyDict
    IN  [edited |-> mirrored @@ [k \in news |-> JStr(typed[k])] @@ entry,
         changed |-> news # {},
         deleted |-> del]

\* the dict of a new entry (key a)
new_entry ==
    [title |-> JStr(<<>>), serviceName |-> JStr(<<>>), username |-> JStr(<<>>),
     password |-> JStr(<<>>), notes |-> JStr(<<>>)]

\* entries.pop(idx), idx counted from 0
Pop(es, idx) == SubSeq(es, 1, idx) \o SubSeq(es, idx + 2, Len(es))

\* entries[i], entries[j] = entries[j], entries[i], indices counted from 0
Exchanged(es, i, j) ==
    [n \in 1..Len(es) |-> IF n = i + 1 THEN es[j + 1]
                          ELSE IF n = j + 1 THEN es[i + 1]
                          ELSE es[n]]

Min(a, b) == IF a <= b THEN a ELSE b

\* a key was read in the list view, or main ended as res
Key(op, res) == Call(op, 0, FALSE, 0, FALSE, res)

\* tui goes round its loop: the key left the run as e
Looped(op, e) ==
    /\ editor' = e
    /\ last' = Key(op, "ok")
    /\ UNCHANGED <<vault, phase, store, crypto>>

\* main up to curses.wrapper(tui, entries): load_file, load_entries and the
\* first statements of tui
CursesStart(p) ==
    /\ ~editor.running
    /\ phase = "closed"
    /\ last = NoCall
    /\ IF ~vault.exists
       THEN /\ last' = Key("start", "raised")
            /\ UNCHANGED editor
       ELSE \E r \in {load_entries(vault.data, p)} :
              IF r.raised # ""
              THEN /\ last' = Key("start", "raised")
                   /\ UNCHANGED editor
              ELSE /\ last' = Key("start", "ok")
                   /\ editor' = [running |-> TRUE, password |-> p,
                                 entries |-> r.entries, extras |-> r.extras,
                                 idx |-> IF r.entries # <<>> THEN 0 ELSE -1,
                                 modified |-> FALSE]
    /\ UNCHANGED <<vault, phase, store, crypto>>

\* Up or k
KeyUp ==
    /\ editor.running
    /\ Looped("k", IF editor.entries # <<>>
                   THEN [editor EXCEPT !.idx = Max(0, @ - 1)]
                   ELSE editor)

\* Down or j
KeyDown ==
    /\ editor.running
    /\ Looped("j", IF editor.entries # <<>>
                   THEN [editor EXCEPT
                           !.idx = Min(Len(editor.entries) - 1, @ + 1)]
                   ELSE editor)

\* a, then the detail view on a new entry
KeyAdd(typed, del) ==
    /\ editor.running
    /\ Len(editor.entries) < MaxEntries
    /\ LET r == edit_entry_fields(new_entry, typed, del)
           any == \E k \in DOMAIN r.edited : Truthy(r.edited[k])
       IN  Looped("a", IF ~r.deleted /\ (r.changed \/ any)
                       THEN [editor EXCEPT !.entries = Append(@, r.edited),
                                           !.idx = Len(editor.entries),
                                           !.modified = TRUE]
                       ELSE editor)

\* d, then y (yes = TRUE) or another key
KeyDelete(yes) ==
    /\ editor.running
    /\ Looped("d", IF editor.entries # <<>> /\ yes
                   THEN [editor EXCEPT
                           !.entries = Pop(@, editor.idx),
                           !.idx = Min(editor.idx, Len(editor.entries) - 2),
                           !.modified = TRUE]
                   ELSE editor)

\* e or Enter, then the detail view on the selected entry
KeyEdit(typed, del) ==
    /\ editor.running
    /\ IF editor.entries = <<>> THEN Looped("e", editor)
       ELSE LET r == edit_entry_fields(editor.entries[editor.idx + 1], typed, del)
            IN  Looped("e", IF r.deleted
                            THEN [editor EXCEPT
                                    !.entries = Pop(@, editor.idx),
                                    !.idx = Min(editor.idx, Len(editor.entries) - 2),
                                    !.modified = TRUE]
                            ELSE [editor EXCEPT
                                    !.entries[editor.idx + 1] = r.edited,
                                    !.modified = @ \/ r.changed])

\* u: move the selected entry up
KeyMoveUp ==
    /\ editor.running
    /\ Looped("u", IF editor.entries # <<>> /\ editor.idx > 0
                   THEN [editor EXCEPT
                           !.entries = Exchanged(@, editor.idx - 1, editor.idx),
                           !.idx = @ - 1,
                           !.modified = TRUE]
                   ELSE editor)

\* n: move the selected entry down
KeyMoveDown ==
    /\ editor.running
    /\ Looped("n", IF /\ editor.entries # <<>>
                      /\ editor.idx < Len(editor.entries) - 1
                   THEN [editor EXCEPT
                           !.entries = Exchanged(@, editor.idx + 1, editor.idx),
                           !.idx = @ + 1,
                           !.modified = TRUE]
                   ELSE editor)

\* q whose return hands `modified` to main, which then saves a changed list
KeyQuit_returns_modified ==
    /\ editor.running
    /\ editor' = [editor EXCEPT !.running = FALSE]
    /\ last' = Key("q", "ok")
    /\ \E blob \in {encrypt_vault(serialize_entries(editor.entries, editor.extras),
                                  editor.password, 1, 1)} :
         vault' = IF editor.modified THEN save_file(blob, Len(blob)) ELSE vault
    /\ UNCHANGED <<phase, store, crypto>>

\* q: tui returns (False, entries) and main prints "No changes saved.";
\* the run ends with the locals as they are
KeyQuit ==
    /\ editor.running
    /\ editor' = [editor EXCEPT !.running = FALSE]
    /\ last' = Key("q", "ok")
    /\ UNCHANGED <<vault, phase, store, crypto>>

\* s: tui returns (True, entries) and main serialises, encrypts and calls
\* save_file on the output path, which is the input path by default; the
\* write completes or the process dies after `cut` bytes
KeySave ==
    /\ editor.running
    /\ \E r \in SaveDraws :
         \E blob \in {encrypt_vault(serialize_entries(editor.entries, editor.extras),
                                   editor.password, r, r)} :
           \/ /\ vault' = save_file(blob, Len(blob))
              /\ last' = Key("s", "ok")
           \/ \E cut \in 0..MaxCut :
                /\ cut < Len(blob)
                /\ vault' = save_file(blob, cut)
                /\ last' = Key("s", "crashed")
    /\ editor' = [editor EXCEPT !.running = FALSE]
    /\ UNCHANGED <<phase, store, crypto>>

NextCurses ==
    \/ \E p \in Passphrases : CursesStart(p)
    \/ KeyUp
    \/ KeyDown
    \/ \E typed \in Typings, del \in BOOLEAN : KeyAdd(typed, del)
    \/ \E yes \in BOOLEAN : KeyDelete(yes)
    \/ \E typed \in Typings, del \in BOOLEAN : KeyEdit(typed, del)
    \/ KeyMoveUp
    \/ KeyMoveDown
    \/ KeyQuit
    \/ KeySave

SpecCurses == Init /\ [][NextCurses]_vars

(***************************************************************************)
(* Properties of VaultStore and the Textual front end, under Spec          *)
(***************************************************************************)
Mutating == {"add", "update", "delete", "reorder", "sort", "edit"}

\* the call op, one of ops, has just returned
Returned(ops) == last.op \in ops /\ last.res = "ok"

KeysAreIds(ents) == \A k \in DOMAIN ents : ents[k].id = k

\* the n entries carry the order values 0..n-1, each once
Dense(ents) ==
    {ents[k].order : k \in DOMAIN ents} = 0..(Cardinality(DOMAIN ents) - 1)

\* id is the first (last) entry of the store in (order, id) order
IsFirst(ents, id) ==
    /\ id \in DOMAIN ents
    /\ \A o \in DOMAIN ents :
         ents[id].order < ents[o].order \/ (ents[id].order = ents[o].order /\ id <= o)

IsLast(ents, id) ==
    /\ id \in DOMAIN ents
    /\ \A o \in DOMAIN ents :
         ents[o].order < ents[id].order \/ (ents[o].order = ents[id].order /\ o <= id)

\* the top-level keys of a document other than "entries"
TopLevelOthers(doc) == [k \in DOMAIN doc.dict \ {"entries"} |-> doc.dict[k]]

\* C1, as the specification states it: after any add / update / delete /
\* reorder / sort call the ids are unique and the order values of the n
\* entries are exactly 0..n-1.
IdsUniqueOrdersDense ==
    Returned(Mutating) => (KeysAreIds(entries) /\ Dense(entries))

\* C1, as the code has it: every entry is stored under its own id, so ids
\* are unique at all times; the order values are exactly 0..n-1 when a
\* reorder that moved an entry, or a sort, has returned (add, update and
\* delete do not renumber).
IdsUniqueOrdersDenseAfterRenumber ==
    /\ phase = "open" => KeysAreIds(entries)
    /\ Returned({"reorder", "sort"}) => Dense(entries)

\* a reorder has moved an entry of a store of two
RenumberedByReorder ==
    /\ Returned({"reorder"})
    /\ Cardinality(DOMAIN entries) = 2
    /\ Dense(entries)

\* C4: when a mutating operation has returned, the vault file decrypts
\* under the store's passphrase to a document whose "entries" list holds
\* exactly the in-memory entries, in (order, id) order, each with all its
\* fields, and whose other keys are the extras.
FullPersistAfterMutation ==
    Returned(Mutating) =>
      LET d == decrypt_vault(vault.data, password)
          j == loads(d.plaintext)
      IN  /\ vault.exists
          /\ d.err = ""
          /\ d.verified
          /\ j.ok
          /\ IsDict(j.val)
          /\ "entries" \in DOMAIN j.val.dict
          /\ IsList(j.val.dict["entries"])
          /\ LET items == j.val.dict["entries"].list
             IN  /\ Len(items) = Cardinality(DOMAIN entries)
                 /\ \A k \in DOMAIN entries :
                      \E i \in 1..Len(items) :
                        /\ IsDict(items[i])
                        /\ items[i].dict =
                             [id |-> JInt(k),
                              serviceName |-> JStr(entries[k].serviceName),
                              title |-> JStr(entries[k].serviceName),
                              username |-> JStr(entries[k].username),
                              password |-> JStr(entries[k].password),
                              notes |-> JStr(entries[k].notes),
                              order |-> JInt(entries[k].order)]
                 /\ \A i \in 1..(Len(items) - 1) :
                      LET a == items[i].dict
                          b == items[i + 1].dict
                      IN  \/ a["order"].int < b["order"].int
                          \/ /\ a["order"].int = b["order"].int
                             /\ a["id"].int < b["id"].int
          /\ TopLevelOthers(j.val) = extras

\* a delete has returned in a store that still holds an entry and extras
PersistedAfterDelete ==
    /\ Returned({"delete"})
    /\ entries # EmptyDict
    /\ extras # EmptyDict

\* C5: a save that is interrupted leaves the vault file as it was or holding
\* the complete new envelope, never a truncated or empty one.
InterruptedSaveKeepsFile ==
    [][last'.res = "crashed" =>
         \/ vault' = vault
         \/ /\ from_bytes(vault'.data).err = ""
            /\ decrypt_vault(vault'.data, password).verified]_vars

\* C6: within one store lifetime the id counter never decreases, and an add
\* of an entry without id never assigns an id that was deleted before.
CounterGrowsIdsNotReused ==
    [][/\ (phase = "open" /\ phase' = "open") => next_id' >= next_id
       /\ (last'.op = "add" /\ last'.auto /\ last'.res = "ok") =>
            last'.id \notin deleted]_vars

\* C7: update, delete and reorder of an id the store does not hold end in
\* an error reported to the caller.
UnknownIdReported ==
    (last.op \in {"update", "delete", "reorder"} /\ last.id # NoId /\ ~last.known)
      => last.res = "raised"

\* C8: reorder(first entry, -1) and reorder(last entry, +1) leave every
\* entry, the id counter and the extras as they were and do not write the
\* vault file.
ReorderBoundaryNoOp ==
    [][(/\ last'.op = "reorder"
        /\ \/ last'.delta = -1 /\ IsFirst(entries, last'.id)
           \/ last'.delta = 1 /\ IsLast(entries, last'.id))
         => /\ last'.res = "noop"
            /\ entries' = entries
            /\ next_id' = next_id
            /\ extras' = extras
            /\ vault' = vault]_vars

\* reorder(last entry, +1) has returned in a store of two entries
ReorderedPastEnd ==
    /\ last.op = "reorder"
    /\ last.delta = 1
    /\ last.res = "noop"
    /\ Cardinality(DOMAIN entries) = 2
    /\ IsLast(entries, last.id)

\* C9: add of an entry without id gives it the counter's value as id and
\* advances the counter by one, and gives it the order max(existing) + 1,
\* or 0 in an empty store; two adds on a new store give (1, 0) and (2, 1).
AddAssignsIdAndOrder ==
    [][(last'.op = "add" /\ last'.auto /\ last'.res = "ok") =>
         /\ last'.id = next_id
         /\ next_id' = next_id + 1
         /\ next_id \in DOMAIN entries'
         /\ entries'[next_id].id = next_id
         /\ \A k \in DOMAIN entries :
              entries[k].order < entries'[next_id].order
         /\ \/ entries = EmptyDict /\ entries'[next_id].order = 0
            \/ \E k \in DOMAIN entries :
                 entries'[next_id].order = entries[k].order + 1
         /\ (entries = EmptyDict /\ next_id = 1) =>
              (entries'[1].id = 1 /\ entries'[1].order = 0)
         /\ (DOMAIN entries = {1} /\ entries[1].order = 0 /\ next_id = 2) =>
              (entries'[2].id = 2 /\ entries'[2].order = 1)]_vars

\* the second add on a new store has returned
AddedSecondEntry ==
    /\ last.op = "add"
    /\ last.auto
    /\ last.res = "ok"
    /\ last.id = 2
    /\ DOMAIN entries = {1, 2}
    /\ entries[1].order = 0
    /\ entries[2].order = 1

\* C10: the extras of an open store are the top-level keys, other than
\* "entries", of the document the vault was made from, whatever calls were
\* made since; when a mutating call has returned, reloading the file it
\* wrote gives the same extras; and the curses editor's load_entries and
\* serialize_entries carry the same keys from the file into its payload.
ExtrasRoundTrip ==
    /\ phase = "open" =>
         IF given = NoGiven THEN extras = EmptyDict
         ELSE \E d \in InitDocs :
                /\ given.plaintext = dumps(d)
                /\ extras = TopLevelOthers(d)
    /\ Returned(Mutating) =>
         LET r == load(vault.exists, vault.data, password)
         IN  r.raised = "" /\ r.extras = extras
    /\ (Returned({"open"}) /\ vault.exists) =>
         LET c == load_entries(vault.data, password)
             back == loads(serialize_entries(c.entries, c.extras))
         IN  /\ c.raised = ""
             /\ back.ok
             /\ IsDict(back.val)
             /\ TopLevelOthers(back.val) = extras

\* an edit has returned in a store that was loaded with extras
ExtrasKeptAfterEdit ==
    /\ Returned({"edit"})
    /\ "customKey" \in DOMAIN extras
    /\ extras["customKey"] = JStr(<<118>>)

\* the keys of a record that VaultStore.load reads
RecordKeys == {"id", "serviceName", "title", "username", "password", "notes",
               "order"}

\* the records of the "entries" list of the document in the vault file, as
\* the store's passphrase decrypts it
SavedRecords ==
    LET j == loads(decrypt_vault(vault.data, password).plaintext)
    IN  IF j.ok /\ IsDict(j.val) /\ IsList(Get(j.val.dict, "entries"))
        THEN Get(j.val.dict, "entries").list
        ELSE <<>>

\* C11: a record loaded with a key the store does not recognise is written
\* back by save with the same key and value: when a call that did not name
\* the record's id has saved, the file's record of that id still has it.
UnknownRecordFieldsKept ==
    (Returned(Mutating) /\ given # NoGiven) =>
      \A d \in InitDocs :
        given.plaintext = dumps(d) =>
          \A i \in 1..Len(d.dict["entries"].list) :
            LET rec == d.dict["entries"].list[i].dict
                k == rec["id"].int
            IN  (k \in DOMAIN entries /\ k \notin deleted /\ last.id # k) =>
                  \E n \in 1..Len(SavedRecords) :
                    /\ SavedRecords[n].dict["id"] = JInt(k)
                    /\ \A key \in DOMAIN rec \ RecordKeys :
                         /\ key \in DOMAIN SavedRecords[n].dict
                         /\ SavedRecords[n].dict[key] = rec[key]

\* C18: an edit through the front end puts the typed field values in the
\* place of the stored record, under the id and with the order the entry
\* had when the editor was opened, and leaves every other entry as it was
\* (unless the process dies in the save); cancelling the editor changes
\* nothing in the store and does not write the vault file.
EditKeepsIdAndOrder ==
    [][/\ (last'.op = "edit" /\ last'.res # "crashed") =>
            /\ last'.id \in DOMAIN entries
            /\ DOMAIN entries' = DOMAIN entries
            /\ \E f \in Fields :
                 entries'[last'.id] =
                   [id |-> last'.id, order |-> entries[last'.id].order,
                    serviceName |-> f.serviceName, username |-> f.username,
                    password |-> f.password, notes |-> f.notes]
            /\ \A k \in DOMAIN entries \ {last'.id} : entries'[k] = entries[k]
            /\ next_id' = next_id
            /\ extras' = extras
       /\ last'.op = "cancel" =>
            /\ entries' = entries
            /\ next_id' = next_id
            /\ extras' = extras
            /\ vault' = vault]_vars

\* entry 2, loaded as ("B", "", "q", "") with order 1, was edited to
\* ("a", "u", "p", "") and kept its order next to entry 1
EditedSecondOfTwo ==
    /\ Returned({"edit"})
    /\ last.id = 2
    /\ DOMAIN entries = {1, 2}
    /\ entries[2].serviceName = <<97>>
    /\ entries[2].order = 1
    /\ entries[1].order = 1

\* C21: in every state of an open store, after any load, add, update,
\* delete and reorder calls, the id counter is greater than every id the
\* store holds, and so an add of an entry without id makes the store one
\* entry larger and takes the place of no entry.
CounterAboveEveryId ==
    [][/\ (phase' = "open") => \A k \in DOMAIN entries' : next_id' > k
       /\ (last'.op = "add" /\ last'.auto /\ last'.res = "ok") =>
            /\ last'.id \notin DOMAIN entries
            /\ Cardinality(DOMAIN entries') = Cardinality(DOMAIN entries) + 1]_vars

(***************************************************************************)
(* Properties of the list operations, under SpecList                       *)
(***************************************************************************)
\* the number of entries that come before entry id in (order, id) order
PositionOf(ents, id) ==
    Cardinality({o \in DOMAIN ents :
                   \/ ents[o].order < ents[id].order
                   \/ ents[o].order = ents[id].order /\ o < id})

\* entry b is entry a but for its order
SameButOrder(a, b) == [a EXCEPT !.order = 0] = [b EXCEPT !.order = 0]

\* C15: reorder(id, delta) of an entry at position p with 0 <= p + delta < n
\* puts it at position p + delta and the entry that was there at p, leaves
\* every other entry at its position, changes no field but order, and
\* makes every entry's order its position, so that orders are 0..n-1
\* (unless the process dies in the save that ends the call).
ReorderSwapsAndRenumbers ==
    [][(/\ last'.op = "reorder"
        /\ last'.res # "crashed"
        /\ last'.id \in DOMAIN entries
        /\ PositionOf(entries, last'.id) + last'.delta >= 0
        /\ PositionOf(entries, last'.id) + last'.delta < Cardinality(DOMAIN entries))
         => LET p == PositionOf(entries, last'.id)
                q == p + last'.delta
            IN  /\ last'.res = "ok"
                /\ DOMAIN entries' = DOMAIN entries
                /\ \A k \in DOMAIN entries :
                     /\ SameButOrder(entries[k], entries'[k])
                     /\ entries'[k].order = PositionOf(entries', k)
                     /\ entries'[k].order =
                          IF k = last'.id THEN q
                          ELSE IF PositionOf(entries, k) = q THEN p
                          ELSE PositionOf(entries, k)
                /\ Dense(entries')]_vars

\* the first of three entries has been moved to the end: it and the last
\* one changed places around the middle one
MovedAcrossMiddle ==
    /\ Returned({"reorder"})
    /\ last.delta = 2
    /\ DOMAIN entries = {1, 2, 3}
    /\ entries[last.id].order = 2

\* the key of the sort: the name without regard to case
NameKey(e) == lower(e.serviceName)

\* C16: each sort from the front end takes the direction opposite to the
\* one before (the first one of a screen is descending), and when it has
\* returned the entries are the same but for their order values, which
\* are 0..n-1 and follow the names, compared without regard to case, in
\* that direction.
SortTogglesAndOrders ==
    [][(last'.op = "sort" /\ last'.res = "ok") =>
         /\ sort_desc' = ~sort_desc
         /\ DOMAIN entries' = DOMAIN entries
         /\ \A k \in DOMAIN entries : SameButOrder(entries[k], entries'[k])
         /\ Dense(entries')
         /\ \A a, b \in DOMAIN entries' :
              entries'[a].order < entries'[b].order =>
                IF sort_desc'
                THEN ~StrLess(NameKey(entries'[a]), NameKey(entries'[b]), 1)
                ELSE ~StrLess(NameKey(entries'[b]), NameKey(entries'[a]), 1)]_vars

\* the second sort of a screen has returned, ascending, on three entries
\* of which "a" and "A" come before "B"
SortedAscendingSecond ==
    /\ Returned({"sort"})
    /\ ~sort_desc
    /\ DOMAIN entries = {1, 2, 3}
    /\ entries[1].order = 2

\* C17: delete(id) of an id the store holds removes that entry and leaves
\* every other entry as it was, its id, its order and its fields, and the
\* extras and the id counter too.
DeleteLeavesOthers ==
    [][(last'.op = "delete" /\ last'.id \in DOMAIN entries
          /\ last'.res # "crashed") =>
         /\ last'.res = "ok"
         /\ DOMAIN entries' = DOMAIN entries \ {last'.id}
         /\ \A k \in DOMAIN entries' : entries'[k] = entries[k]
         /\ extras' = extras
         /\ next_id' = next_id]_vars

\* entry 1 of three was deleted: the two left keep the orders 0 and 4
DeletedOneOfThree ==
    /\ Returned({"delete"})
    /\ last.id = 1
    /\ DOMAIN entries = {2, 3}
    /\ entries[3].order = 0
    /\ entries[2].order = 4
    /\ extras # EmptyDict
    /\ next_id = 4

(***************************************************************************)
(* Properties of VaultStore.load, under SpecLoad                           *)
(***************************************************************************)
\* the records of the document the vault was made from
GivenRecords == loads(given.plaintext).val.dict["entries"].list

\* the record has an id (an order) that int() accepts
HasId(rec) == "id" \in DOMAIN rec.dict /\ ParseInt(rec.dict["id"]).ok
HasOrder(rec) == "order" \in DOMAIN rec.dict /\ ParseInt(rec.dict["order"]).ok

\* the id record i of recs is to get, and the value of the id counter when
\* the load reaches it: the counter starts at 1 and is kept above every id
\* given so far
RECURSIVE IdGiven(_, _), CounterBefore(_, _)
IdGiven(recs, i) ==
    IF HasId(recs[i]) THEN ParseInt(recs[i].dict["id"]).n
    ELSE CounterBefore(recs, i)

CounterBefore(recs, i) ==
    IF i = 1 THEN 1
    ELSE Max(CounterBefore(recs, i - 1), IdGiven(recs, i - 1) + 1)

\* C19: on load a record without id gets the counter's value as id, a
\* record whose order is missing or not a number gets its place in the
\* list (from 0) as order, and a record with id and order keeps them: the
\* store holds each record so (where no later record of the list took the
\* same id).
LoadAssignsDefaults ==
    (Returned({"open"}) /\ given # NoGiven) =>
      \A recs \in {GivenRecords} :
        \A i \in 1..Len(recs) :
          (\A j \in (i + 1)..Len(recs) : IdGiven(recs, j) # IdGiven(recs, i)) =>
            /\ IdGiven(recs, i) \in DOMAIN entries
            /\ entries[IdGiven(recs, i)].id = IdGiven(recs, i)
            /\ entries[IdGiven(recs, i)].serviceName = recs[i].dict["serviceName"].str
            /\ entries[IdGiven(recs, i)].order =
                 IF HasOrder(recs[i]) THEN ParseInt(recs[i].dict["order"]).n
                 ELSE i - 1

\* [{"id": 2, "order": 2}, {}] was loaded: the second record has no id and
\* no order and is entry 3 with order 1
LoadedWithDefaults ==
    /\ Returned({"open"})
    /\ Len(GivenRecords) = 2
    /\ HasId(GivenRecords[1])
    /\ ~HasId(GivenRecords[2])
    /\ "order" \notin DOMAIN GivenRecords[2].dict
    /\ DOMAIN entries = {2, 3}
    /\ entries[2].order = 2
    /\ entries[3].order = 1
    /\ entries[3].serviceName = <<98>>

\* C20: load loses no record: after loading a document of n records, with
\* and without ids in any order (the ids that are given being different
\* from each other), the store holds n entries.
LoadLosesNoRecord ==
    (Returned({"open"}) /\ given # NoGiven) =>
      \A recs \in {GivenRecords} :
        (\A i, j \in 1..Len(recs) :
           (i # j /\ HasId(recs[i]) /\ HasId(recs[j])) =>
             recs[i].dict["id"] # recs[j].dict["id"])
          => Cardinality(DOMAIN entries) = Len(recs)

(***************************************************************************)
(* Properties of the curses editor, under SpecCurses                       *)
(***************************************************************************)
\* C14: leaving the list view with q never writes the vault file, whatever
\* add, edit, delete and move keys came before it; no key but s writes the
\* file, and s writes it with the list as it then is.
QuitNeverWrites ==
    [][/\ last'.op = "q" => (vault' = vault /\ ~editor'.running)
       /\ vault' # vault => last'.op = "s"
       /\ (last'.op = "s" /\ last'.res = "ok") =>
            \A c \in {load_entries(vault'.data, editor.password)} :
                /\ c.raised = ""
                /\ Len(c.entries) = Len(editor.entries)
                /\ \A i \in 1..Len(c.entries) :
                     \A k \in DOMAIN editor.entries[i] :
                       k \in {"title", "serviceName"}
                         \/ c.entries[i][k] = editor.entries[i][k]]_vars

\* q was pressed after an entry had been added to the two of the file and
\* moved to the top of the list
QuitAfterChanges ==
    /\ last.op = "q"
    /\ ~editor.running
    /\ editor.modified
    /\ Len(editor.entries) = 3
    /\ editor.entries[1]["serviceName"] = JStr(<<122>>)
    /\ vault = save_file(given.blob, Len(given.blob))

(***************************************************************************)
(* Properties of encrypt_vault and decrypt_vault, under SpecVault          *)
(***************************************************************************)
\* the vault file is as encrypt_vault wrote it
Intact == vault.data = given.blob

\* the file differs from the written one in its nonce, tag or ciphertext
\* (and not in length, magic or salt)
ChangedInBody ==
    /\ Len(vault.data) = Len(given.blob)
    /\ vault.data # given.blob
    /\ \A i \in 1..(Len(MAGIC) + SALT_SIZE) : vault.data[i] = given.blob[i]

\* HMAC takes passphrases p and q for the same key
SameHmacKey(p, q) == HmacKey(utf8_encode(p)) = HmacKey(utf8_encode(q))

\* decrypt_vault returned ("", False)
AuthFailure(o) == o.err = "" /\ ~o.verified /\ o.plaintext = <<>>

\* C2, as the specification states it: any passphrase other than the one
\* used, and any changed byte of nonce, tag or ciphertext, makes
\* decrypt_vault return no plaintext with verified = false.
FailClosedAnyPassphrase ==
    (/\ given # NoGiven
     /\ out.err # "none"
     /\ \/ Intact /\ out.by # given.passphrase
        \/ ChangedInBody)
      => AuthFailure(out)

\* the passphrase p must be refused on the file as it is now
MustRefuse(p) ==
    /\ given # NoGiven
    /\ vault.exists
    /\ \/ Intact /\ ~SameHmacKey(p, given.passphrase)
       \/ ChangedInBody

FailClosedState ==
    /\ (out.err # "none" /\ MustRefuse(out.by)) => AuthFailure(out)
    /\ (last.op = "open" /\ MustRefuse(last.by)) =>
         (last.res = "raised" /\ phase = "closed" /\ entries = EmptyDict)

\* C2, as the code has it: a passphrase that HMAC takes for another key
\* than the one used (its UTF-8 bytes differ after zero padding to the
\* block size), and any changed byte of nonce, tag or ciphertext, makes
\* decrypt_vault return ("", False) and VaultStore.load raise with no
\* entries loaded; neither writes the vault file.
FailClosed ==
    [][/\ FailClosedState'
       /\ (out'.err # "none" \/ last'.op = "open") => vault' = vault]_vars

\* the right passphrase was refused on a file with a changed byte
ChangedByteRefused ==
    /\ given # NoGiven
    /\ ChangedInBody
    /\ out.by = given.passphrase
    /\ AuthFailure(out)
    /\ given.plaintext # <<>>

\* blob has the Legacy layout: no magic, and a ciphertext after salt (16)
\* and checksum (32) that is a positive multiple of 16 bytes long
LegacyShaped(blob) ==
    /\ Len(blob) > 48
    /\ (Len(blob) - 48) % 16 = 0
    /\ SubSeq(blob, 1, Len(MAGIC)) # MAGIC

\* decrypt_vault raised the ValueError of from_bytes
FormatError(o) == o.err \in {"Vault file too small", "Invalid vault header"}

\* C12: a blob of the Legacy layout is decrypted without raising (a changed
\* ciphertext byte gives verified = false, not an exception), and only a
\* blob that fits neither layout gives a format error.
LegacyReadCompatible ==
    (vault.exists /\ out.err # "none") =>
      /\ LegacyShaped(vault.data) => out.err = ""
      /\ FormatError(out) =>
           /\ ~LegacyShaped(vault.data)
           /\ \/ Len(vault.data) < header_len
              \/ SubSeq(vault.data, 1, Len(MAGIC)) # MAGIC

\* the ciphertext of blob, read as a VLT2 envelope, is empty
EmptyCiphertext(blob) ==
    Len(blob) = header_len /\ SubSeq(blob, 1, Len(MAGIC)) = MAGIC

\* C13: a blob shorter than the header, or with an empty ciphertext, always
\* ends in a format error (the ValueError of decoding, or at the latest the
\* unparseable document), and the tool reports a format error and an
\* authentication failure as different outcomes.
ShortOrEmptyIsFormatError ==
    (vault.exists /\ out.err # "none") =>
      /\ (Len(vault.data) < header_len \/ EmptyCiphertext(vault.data)) =>
           ExitMessage(out) \in {"Invalid vault format", "JSONDecodeError"}
      /\ FormatError(out) => ExitMessage(out) = "Invalid vault format"
      /\ AuthFailure(out) => ExitMessage(out) = "Authentication failed"

\* C3: decrypt_vault(encrypt_vault(D, P), P) returns D with verified = true,
\* whatever salt and nonce were drawn.
RoundTrip ==
    (given # NoGiven /\ out.err # "none" /\ Intact /\ out.by = given.passphrase)
      => (out.err = "" /\ out.verified /\ out.plaintext = given.plaintext)

\* a plaintext with a character outside ASCII came back
RoundTripNonAscii ==
    /\ given # NoGiven
    /\ Intact
    /\ out.by = given.passphrase
    /\ out.verified
    /\ out.plaintext = given.plaintext
    /\ \E i \in 1..Len(given.plaintext) : given.plaintext[i] >= 128
=============================================================================
